---- MODULE Spec2Model ----
(***************************************************************************)
(* A model of chaos_downloader: the selector (parseCompanyNames,           *)
(* readCompanyList), the item processor (processURLs, downloadAndUnzip),   *)
(* the archive extractor (unzipFile) and the concatenator                  *)
(* (concatenateAllTxtFiles, findAllTxtFiles), over a small file system.    *)
(*                                                                         *)
(* A string is a sequence of one-character strings; a path is a sequence   *)
(* of names (each a string in that sense).                                 *)
(***************************************************************************)
EXTENDS Integers, Sequences, FiniteSets, TLC

VARIABLES
    pc,             \* where main (or the function under study) stands
    help,           \* -h
    all,            \* -a
    companies,      \* -c, a string ("" when not given)
    inputFile,      \* -i, a path ("" when not given)
    listFile,       \* the content of the file -i names, or NoFile
    root,           \* whether the process may override file permissions
    index,          \* the remote index: a sequence of [name, zip]
    fs,             \* the file system below the working directory
    fs0,            \* the file system when the run started
    tmp,            \* the temporary archive files that exist
    companySet,     \* main's companySet: Nil or a set of strings
    entries,        \* processURLs' decoded entries
    idx,            \* processURLs' position in entries
    processedCount, \* processURLs' processedCount
    stdout,         \* what was printed on standard output
    stderr,         \* what was written to standard error: the log, the usage text
    call            \* the calls made so far, each with what it returned

vars == <<pc, help, all, companies, inputFile, listFile, root, index, fs, fs0,
          tmp, companySet, entries, idx, processedCount, stdout, stderr, call>>

(***************************************************************************)
(* Bounds                                                                  *)
(***************************************************************************)
MaxLen == 4

(***************************************************************************)
(* Strings                                                                 *)
(***************************************************************************)
\* a Go map[string]struct{}: nil, or a set of strings
NilSet == [nil |-> TRUE, names |-> {}]
MakeSet(names) == [nil |-> FALSE, names |-> names]

\* the file -i names: one that cannot be opened; one that is read to its
\* end; or one that opens and whose scan ends in an error (a read error, a
\* directory, a line beyond bufio.MaxScanTokenSize) after content was scanned
NoFile == [exists |-> FALSE, content |-> <<>>, scanErr |-> FALSE]
TextFile(content) == [exists |-> TRUE, content |-> content, scanErr |-> FALSE]
BrokenFile(content) == [exists |-> TRUE, content |-> content, scanErr |-> TRUE]

\* a line printed or logged
Msg(m, arg) == [msg |-> m, arg |-> arg]

Upper == <<"A","B","C","D","E","F","G","H","I","J","K","L","M",
           "N","O","P","Q","R","S","T","U","V","W","X","Y","Z">>
Lower == <<"a","b","c","d","e","f","g","h","i","j","k","l","m",
           "n","o","p","q","r","s","t","u","v","w","x","y","z">>

\* unicode.IsSpace, on the characters of the model
IsSpace(c) == c \in {" ", "\t", "\n", "\r"}

ToLowerChar(c) ==
    IF \E k \in 1..Len(Upper) : Upper[k] = c
    THEN Lower[CHOOSE k \in 1..Len(Upper) : Upper[k] = c]
    ELSE c

\* strings.ToLower
ToLower(s) == [k \in 1..Len(s) |-> ToLowerChar(s[k])]

RECURSIVE TrimLeft(_)
TrimLeft(s) ==
    IF s # <<>> /\ IsSpace(Head(s)) THEN TrimLeft(Tail(s)) ELSE s

RECURSIVE TrimRight(_)
TrimRight(s) ==
    IF s # <<>> /\ IsSpace(s[Len(s)]) THEN TrimRight(SubSeq(s, 1, Len(s) - 1)) ELSE s

\* strings.TrimSpace
TrimSpace(s) == TrimRight(TrimLeft(s))

\* the position of the first sep in s, or 0
RECURSIVE IndexFrom(_, _, _)
IndexFrom(s, sep, k) ==
    IF k > Len(s) THEN 0
    ELSE IF s[k] = sep THEN k
    ELSE IndexFrom(s, sep, k + 1)

\* strings.Split(s, sep) for a one-character sep: n separators give n+1 pieces
RECURSIVE Split(_, _)
Split(s, sep) ==
    LET k == IndexFrom(s, sep, 1) IN
    IF k = 0 THEN <<s>>
    ELSE <<SubSeq(s, 1, k - 1)>> \o Split(SubSeq(s, k + 1, Len(s)), sep)

\* bufio's dropCR
dropCR(s) ==
    IF s # <<>> /\ s[Len(s)] = "\r" THEN SubSeq(s, 1, Len(s) - 1) ELSE s

\* the tokens bufio.Scanner yields with ScanLines
RECURSIVE ScanLines(_)
ScanLines(s) ==
    IF s = <<>> THEN <<>>
    ELSE LET k == IndexFrom(s, "\n", 1) IN
         IF k = 0 THEN <<dropCR(s)>>
         ELSE <<dropCR(SubSeq(s, 1, k - 1))>> \o ScanLines(SubSeq(s, k + 1, Len(s)))

(***************************************************************************)
(* Selector                                                                *)
(***************************************************************************)
\* the loop body shared by parseCompanyNames and readCompanyList
RECURSIVE collectNames(_, _)
collectNames(names, acc) ==
    IF names = <<>> THEN acc
    ELSE LET trimmed == TrimSpace(Head(names)) IN
         collectNames(Tail(names),
                      IF trimmed # <<>> THEN acc \cup {ToLower(trimmed)} ELSE acc)

RECURSIVE collectNoTrim(_, _)
collectNoTrim(names, acc) ==
    IF names = <<>> THEN acc
    ELSE collectNoTrim(Tail(names),
                       IF Head(names) # <<>> THEN acc \cup {ToLower(Head(names))} ELSE acc)

\* a parseCompanyNames that forgets to trim
parseCompanyNamesNoTrim(input) == collectNoTrim(Split(input, ","), {})

parseCompanyNames(input) == collectNames(Split(input, ","), {})

\* readCompanyList on a file that opened: the names of the lines scanned,
\* and scanner.Err().  [set, err]
readCompanyList(file) ==
    [set |-> collectNames(ScanLines(file.content), {}), err |-> file.scanErr]

(***************************************************************************)
(* The file system: a function from the paths that exist to their nodes.   *)
(* The working directory is the path <<>>.  A node's w is the owner's      *)
(* write permission bit.                                                   *)
(***************************************************************************)
DirNode == [kind |-> "dir", content |-> <<>>, w |-> TRUE]
FileNode(content, w) == [kind |-> "file", content |-> content, w |-> w]

EmptyFS == [p \in {<<>>} |-> DirNode]

Exists(f, p) == p \in DOMAIN f
IsDirAt(f, p) == Exists(f, p) /\ f[p].kind = "dir"
IsFileAt(f, p) == Exists(f, p) /\ f[p].kind = "file"
Parent(p) == SubSeq(p, 1, Len(p) - 1)
Put(f, p, node) == [q \in DOMAIN f \cup {p} |-> IF q = p THEN node ELSE f[q]]

\* filepath.Join of a directory and a clean relative path
Join(dir, rel) == dir \o rel

\* os.MkdirAll(p, os.ModePerm): nothing to do when p is a directory, an error
\* when p or one of its ancestors is a file, else the missing directories are made
RECURSIVE MkdirAll(_, _)
MkdirAll(f, p) ==
    IF Exists(f, p)
    THEN [fs |-> f, ok |-> f[p].kind = "dir"]
    ELSE LET up == MkdirAll(f, Parent(p)) IN
         IF up.ok THEN [fs |-> Put(up.fs, p, DirNode), ok |-> TRUE]
         ELSE [fs |-> f, ok |-> FALSE]

\* os.OpenFile(p, O_WRONLY|O_CREATE|O_TRUNC, mode) in an existing directory:
\* a new file takes the mode; an existing file is truncated, keeps its mode and
\* must be writable by the caller; a directory cannot be opened for writing
OpenFileTrunc(f, isRoot, p, w) ==
    IF ~IsDirAt(f, Parent(p)) THEN [fs |-> f, ok |-> FALSE]
    ELSE IF ~Exists(f, p) THEN [fs |-> Put(f, p, FileNode(<<>>, w)), ok |-> TRUE]
    ELSE IF f[p].kind = "dir" THEN [fs |-> f, ok |-> FALSE]
    ELSE IF f[p].w \/ isRoot THEN [fs |-> Put(f, p, FileNode(<<>>, f[p].w)), ok |-> TRUE]
    ELSE [fs |-> f, ok |-> FALSE]

\* the bytes of an open file replaced (the file was just truncated)
WriteAll(f, p, content) == Put(f, p, FileNode(content, f[p].w))

(***************************************************************************)
(* Archives.  The bytes at a URL are a zip archive (valid) with its files, *)
(* or not (zip.OpenReader fails).  An archive entry is                     *)
(* [name, dir, w, content, fault]: name a relative path, dir whether the   *)
(* entry is a directory, w the owner-write bit of its mode, fault "none",  *)
(* "method" (f.Open fails) or "crc" (io.Copy delivers the bytes and then   *)
(* fails).                                                                 *)
(***************************************************************************)
NotZip == [valid |-> FALSE, files |-> <<>>]
Zip(files) == [valid |-> TRUE, files |-> files]
ZipDir(name) == [name |-> name, dir |-> TRUE, w |-> TRUE, content |-> <<>>, fault |-> "none"]
ZipFile(name, w, content, fault) ==
    [name |-> name, dir |-> FALSE, w |-> w, content |-> content, fault |-> fault]

\* what unzipFile does with one file entry: [fs, ok]
extractFile(f, isRoot, fpath, e) ==
    LET dirs == MkdirAll(f, Parent(fpath)) IN
    IF ~dirs.ok THEN [fs |-> f, ok |-> FALSE]
    ELSE LET out == OpenFileTrunc(dirs.fs, isRoot, fpath, e.w) IN
         IF ~out.ok THEN [fs |-> dirs.fs, ok |-> FALSE]
         ELSE IF e.fault = "method" THEN [fs |-> out.fs, ok |-> FALSE]
         ELSE [fs |-> WriteAll(out.fs, fpath, e.content), ok |-> e.fault # "crc"]

\* unzipFile's loop from entry k on.  made records, for each entry the loop
\* reached, whether that entry was created and written.
RECURSIVE unzipFrom(_, _, _, _, _, _)
unzipFrom(f, isRoot, files, destDir, k, made) ==
    IF k > Len(files) THEN [fs |-> f, err |-> FALSE, made |-> made]
    ELSE LET e == files[k]
             fpath == Join(destDir, e.name) IN
         IF e.dir
         THEN LET d == MkdirAll(f, fpath) IN
              unzipFrom(d.fs, isRoot, files, destDir, k + 1, Append(made, d.ok))
         ELSE LET x == extractFile(f, isRoot, fpath, e) IN
              IF x.ok
              THEN unzipFrom(x.fs, isRoot, files, destDir, k + 1, Append(made, TRUE))
              ELSE [fs |-> x.fs, err |-> TRUE, made |-> Append(made, FALSE)]

unzipFile(f, isRoot, zip, destDir) ==
    IF ~zip.valid THEN [fs |-> f, err |-> TRUE, made |-> <<>>]
    ELSE unzipFrom(f, isRoot, zip.files, destDir, 1, <<>>)

(***************************************************************************)
(* Concatenator                                                            *)
(***************************************************************************)
\* the characters of file names, in ascending byte order
ByteOrder == <<" ", ",", "-", ".",
               "0","1","2","3","4","5","6","7","8","9",
               "A","B","C","D","E","F","G","H","I","J","K","L","M",
               "N","O","P","Q","R","S","T","U","V","W","X","Y","Z",
               "_",
               "a","b","c","d","e","f","g","h","i","j","k","l","m",
               "n","o","p","q","r","s","t","u","v","w","x","y","z">>

\* a character's place in the byte order
Code(c) == CHOOSE k \in 1..Len(ByteOrder) : ByteOrder[k] = c

\* Go's string order: byte by byte, a proper prefix first
RECURSIVE StrLess(_, _)
StrLess(a, b) ==
    IF b = <<>> THEN FALSE
    ELSE IF a = <<>> THEN TRUE
    ELSE IF Head(a) # Head(b) THEN Code(Head(a)) < Code(Head(b))
    ELSE StrLess(Tail(a), Tail(b))

\* the names of a set, ascending (readDirNames sorts what it read)
RECURSIVE SortNames(_)
SortNames(S) ==
    IF S = {} THEN <<>>
    ELSE LET least == CHOOSE x \in S : \A y \in S \ {x} : StrLess(x, y) IN
         <<least>> \o SortNames(S \ {least})

\* strings.HasSuffix
HasSuffix(s, suffix) ==
    Len(s) >= Len(suffix) /\ SubSeq(s, Len(s) - Len(suffix) + 1, Len(s)) = suffix

dot_txt == <<".", "t", "x", "t">>

\* the walk function's test with every file taken
isTxtFileAnyName(f, path) == ~IsDirAt(f, path)

\* the walk function's test: !info.IsDir() && strings.HasSuffix(info.Name(), ".txt")
isTxtFile(f, path) == ~IsDirAt(f, path) /\ HasSuffix(path[Len(path)], dot_txt)

readDirNames(f, dir) ==
    SortNames({p[Len(p)] : p \in {q \in DOMAIN f : Len(q) = Len(dir) + 1 /\ Parent(q) = dir}})

\* filepath.Walk below an existing path, with findAllTxtFiles' function: the
\* function is called on the path, then on a directory's names in order; a
\* directory that cannot be read ends the whole walk.  [files, stop]
RECURSIVE walk(_, _, _, _)
RECURSIVE walkNames(_, _, _, _, _)
walk(f, path, unreadable, files) ==
    LET found == IF isTxtFile(f, path) THEN Append(files, path) ELSE files IN
    IF ~IsDirAt(f, path) THEN [files |-> found, stop |-> FALSE]
    ELSE IF path \in unreadable THEN [files |-> found, stop |-> TRUE]
    ELSE walkNames(f, path, readDirNames(f, path), unreadable, found)

walkNames(f, dir, names, unreadable, files) ==
    IF names = <<>> THEN [files |-> files, stop |-> FALSE]
    ELSE LET r == walk(f, Append(dir, Head(names)), unreadable, files) IN
         IF r.stop THEN r
         ELSE walkNames(f, dir, Tail(names), unreadable, r.files)

\* findAllTxtFiles(root): a root that does not exist gives no files
findAllTxtFiles(f, rootPath, unreadable) ==
    IF ~Exists(f, rootPath) THEN <<>>
    ELSE walk(f, rootPath, unreadable, <<>>).files

everything_txt ==
    <<"e","v","e","r","y","t","h","i","n","g",".","t","x","t">>

\* what the loop of concatenateAllTxtFiles appends for one file, given how its
\* reads and writes went: [kind |-> "ok"], [kind |-> "open"] (os.Open fails),
\* [kind |-> "copy", n |-> k] (io.Copy fails after k bytes) or
\* [kind |-> "newline"] (the newline cannot be written)
appended(content, outcome) ==
    IF outcome.kind = "open" THEN <<>>
    ELSE IF outcome.kind = "copy" THEN SubSeq(content, 1, outcome.n)
    ELSE IF outcome.kind = "newline" THEN content
    ELSE content \o <<"\n">>

\* how the reads and writes for a file go: as the environment says, else well
outcomeFor(outcome, file) ==
    IF file \in DOMAIN outcome THEN outcome[file] ELSE [kind |-> "ok", n |-> 0]

RECURSIVE concatFiles(_, _, _, _)
concatFiles(f, files, outcome, dest) ==
    IF files = <<>> THEN dest
    ELSE concatFiles(f, Tail(files), outcome,
                     dest \o appended(f[Head(files)].content, outcomeFor(outcome, Head(files))))

\* what the loop of concatenateAllTxtFiles logs for the files, in order
RECURSIVE concatLogs(_, _)
concatLogs(files, outcome) ==
    IF files = <<>> THEN <<>>
    ELSE LET kind == outcomeFor(outcome, Head(files)).kind
             line == IF kind = "open" THEN <<Msg("Failed to open", Head(files))>>
                     ELSE IF kind = "copy" THEN <<Msg("Failed to copy", Head(files))>>
                     ELSE IF kind = "newline" THEN <<Msg("Failed to write newline", Head(files))>>
                     ELSE <<>> IN
         line \o concatLogs(Tail(files), outcome)

\* concatenateAllTxtFiles(baseDir, outputDir) under the environment env =
\* [unreadable, outcome]: [fs, err, logs]
concatenateAllTxtFiles(f, isRoot, base, outputDir, env) ==
    LET allTxtFiles == findAllTxtFiles(f, base, env.unreadable)
        destPath == Join(outputDir, <<everything_txt>>)
        dest == OpenFileTrunc(f, isRoot, destPath, TRUE) IN
    IF ~dest.ok THEN [fs |-> f, err |-> TRUE, logs |-> <<>>]
    ELSE [fs |-> WriteAll(dest.fs, destPath, concatFiles(f, allTxtFiles, env.outcome, <<>>)),
          err |-> FALSE, logs |-> concatLogs(allTxtFiles, env.outcome)]

\* the ways the reads and writes for one file can go
OutcomesOf(content) ==
    {[kind |-> "ok", n |-> 0], [kind |-> "open", n |-> 0], [kind |-> "newline", n |-> 0]}
    \cup {[kind |-> "copy", n |-> k] : k \in 0..Len(content)}

IsUnder(p, base) == Len(p) > Len(base) /\ SubSeq(p, 1, Len(base)) = base

\* the .txt files and the directories a walk of base can meet
TxtFilesUnder(f, base) ==
    {p \in DOMAIN f : IsUnder(p, base) /\ f[p].kind = "file" /\ HasSuffix(p[Len(p)], dot_txt)}
DirsFrom(f, base) ==
    {p \in DOMAIN f : (p = base \/ IsUnder(p, base)) /\ f[p].kind = "dir"}

NoFault(f, base) == [p \in TxtFilesUnder(f, base) |-> [kind |-> "ok", n |-> 0]]

\* every environment of a concatenation over f: at most one unreadable
\* directory, and any outcome for each file
ConcatEnvs(f, base) ==
    { [unreadable |-> u, outcome |-> o] :
        u \in {{}} \cup {{d} : d \in DirsFrom(f, base)},
        o \in {g \in [TxtFilesUnder(f, base) ->
                        UNION {OutcomesOf(f[p].content) : p \in TxtFilesUnder(f, base)}] :
                  \A p \in TxtFilesUnder(f, base) : g[p] \in OutcomesOf(f[p].content)} }

\* the environments with at most one fault
ConcatEnvsOneFault(f, base) ==
    {[unreadable |-> {}, outcome |-> NoFault(f, base)]}
    \cup {[unreadable |-> {d}, outcome |-> NoFault(f, base)] : d \in DirsFrom(f, base)}
    \cup UNION {{[unreadable |-> {}, outcome |-> [NoFault(f, base) EXCEPT ![p] = x]] :
                   x \in OutcomesOf(f[p].content) \ {[kind |-> "ok", n |-> 0]}} :
                p \in TxtFilesUnder(f, base)}

(***************************************************************************)
(* Item processor                                                          *)
(***************************************************************************)
AllChaosData == <<"A","l","l","C","h","a","o","s","D","a","t","a">>
baseDir == <<AllChaosData>>

\* a dirPath that lowercases the name
dirPathLowered(base, name) == Join(base, <<ToLower(name)>>)

\* dirPath := filepath.Join(baseDir, name)
dirPath(base, name) == Join(base, <<name>>)

\* os.CreateTemp's file: a name no temporary file has
newTemp(t) == Cardinality(t) + 1

\* a downloadAndUnzip that removes the temporary file only after a successful
\* extraction
downloadAndUnzipNoDefer(f, t, isRoot, zip, name, base, env) ==
    IF env = "get" THEN [fs |-> f, tmp |-> t, err |-> "get", made |-> <<>>]
    ELSE IF env = "createtemp" THEN [fs |-> f, tmp |-> t, err |-> "createtemp", made |-> <<>>]
    ELSE LET created == t \cup {newTemp(t)} IN
         IF env = "copy" THEN [fs |-> f, tmp |-> created, err |-> "copy", made |-> <<>>]
         ELSE LET dir == MkdirAll(f, dirPath(base, name)) IN
              IF ~dir.ok THEN [fs |-> f, tmp |-> created, err |-> "mkdir", made |-> <<>>]
              ELSE LET r == unzipFile(dir.fs, isRoot, zip, dirPath(base, name)) IN
                   [fs |-> r.fs, tmp |-> IF r.err THEN created ELSE t,
                    err |-> IF r.err THEN "unzip" ELSE "none", made |-> r.made]

\* a downloadAndUnzip that makes the directory before it downloads
downloadAndUnzipMkdirFirst(f, t, isRoot, zip, name, base, env) ==
    LET dir == MkdirAll(f, dirPath(base, name)) IN
    IF env = "get" THEN [fs |-> dir.fs, tmp |-> t, err |-> "get", made |-> <<>>]
    ELSE IF env = "createtemp" THEN [fs |-> dir.fs, tmp |-> t, err |-> "createtemp", made |-> <<>>]
    ELSE IF env = "copy" THEN [fs |-> dir.fs, tmp |-> t, err |-> "copy", made |-> <<>>]
    ELSE IF ~dir.ok THEN [fs |-> f, tmp |-> t, err |-> "mkdir", made |-> <<>>]
    ELSE LET r == unzipFile(dir.fs, isRoot, zip, dirPath(base, name)) IN
         [fs |-> r.fs, tmp |-> t, err |-> IF r.err THEN "unzip" ELSE "none", made |-> r.made]

\* downloadAndUnzip(url, name, baseDir), zip being what the URL serves and env
\* how the transfer goes: "get" (http.Get fails), "createtemp" (os.CreateTemp
\* fails), "copy" (the body cannot be written out) or "ok".  The deferred
\* os.Remove takes the temporary file away on every return after its creation.
\* [fs, tmp, err, made]
downloadAndUnzip(f, t, isRoot, zip, name, base, env) ==
    IF env = "get" THEN [fs |-> f, tmp |-> t, err |-> "get", made |-> <<>>]
    ELSE IF env = "createtemp" THEN [fs |-> f, tmp |-> t, err |-> "createtemp", made |-> <<>>]
    ELSE LET created == t \cup {newTemp(t)}
             removed == created \ {newTemp(t)} IN
         IF env = "copy" THEN [fs |-> f, tmp |-> removed, err |-> "copy", made |-> <<>>]
         ELSE LET dir == MkdirAll(f, dirPath(base, name)) IN
              IF ~dir.ok THEN [fs |-> f, tmp |-> removed, err |-> "mkdir", made |-> <<>>]
              ELSE LET r == unzipFile(dir.fs, isRoot, zip, dirPath(base, name)) IN
                   [fs |-> r.fs, tmp |-> removed,
                    err |-> IF r.err THEN "unzip" ELSE "none", made |-> r.made]

\* a filter that compares the name as it stands
isSelectedExact(filterSet, name) == filterSet.nil \/ name \in filterSet.names

\* the loop's filter: a nil set takes every entry, else the lowercased name
\* must be in the set
isSelected(filterSet, name) == filterSet.nil \/ ToLower(name) \in filterSet.names

\* a loop that gives up at the first entry that fails
nextEntryStopOnError(i, n, err) == IF err = "none" THEN i + 1 ELSE n + 1

\* the range loop's next position among n entries: the next entry, whatever
\* downloadAndUnzip returned
nextEntry(i, n, err) == i + 1

\* processedCount after an entry: one more when downloadAndUnzip returned nil
countAfter(count, err) == IF err = "none" THEN count + 1 ELSE count

(***************************************************************************)
(* main                                                                    *)
(***************************************************************************)
\* a usage test that looks at -h only
needUsageHelpOnly(h, i, c, a) == h

\* *help || (*inputFile == "" && *companies == "" && !*all)
needUsage(h, i, c, a) == h \/ (i = <<>> /\ c = <<>> /\ ~a)

\* main's choice of companySet: [set, err, msg]
selectCompanies(c, i, lf) ==
    IF c # <<>> THEN [set |-> MakeSet(parseCompanyNames(c)), err |-> FALSE, msg |-> "selected"]
    ELSE IF i # <<>>
    THEN IF lf.exists
         THEN [set |-> MakeSet(readCompanyList(lf).set), err |-> readCompanyList(lf).err,
               msg |-> "none"]
         ELSE [set |-> NilSet, err |-> TRUE, msg |-> "none"]
    ELSE [set |-> NilSet, err |-> FALSE, msg |-> "all"]

(***************************************************************************)
(* The run: main from the command line to everything.txt                   *)
(***************************************************************************)
MaxIndex == 2

ListPath == <<"l">>

\* the command lines of the model: [help, all, companies, inputFile, listFile]
CommandLines ==
    { [help |-> FALSE, all |-> FALSE, companies |-> <<>>, inputFile |-> <<>>, listFile |-> NoFile],
      [help |-> TRUE, all |-> TRUE, companies |-> <<>>, inputFile |-> <<>>, listFile |-> NoFile],
      [help |-> FALSE, all |-> TRUE, companies |-> <<>>, inputFile |-> <<>>, listFile |-> NoFile],
      [help |-> FALSE, all |-> FALSE, companies |-> <<"A">>, inputFile |-> <<>>, listFile |-> NoFile],
      [help |-> FALSE, all |-> FALSE, companies |-> <<",">>, inputFile |-> <<>>, listFile |-> NoFile],
      [help |-> FALSE, all |-> FALSE, companies |-> <<>>, inputFile |-> ListPath,
       listFile |-> TextFile(<<" ", "a", "\n", "\n", "B", "\n">>)],
      [help |-> FALSE, all |-> FALSE, companies |-> <<>>, inputFile |-> ListPath, listFile |-> NoFile],
      [help |-> FALSE, all |-> FALSE, companies |-> <<>>, inputFile |-> ListPath,
       listFile |-> BrokenFile(<<"a", "\n">>)],
      [help |-> FALSE, all |-> TRUE, companies |-> <<"b">>, inputFile |-> ListPath,
       listFile |-> TextFile(<<"a">>)] }

f_txt == <<"f", ".", "t", "x", "t">>
g_txt == <<"g", ".", "t", "x", "t">>
dir_d == <<"d">>

\* what the index may list: [name, zip], zip being what the entry's URL serves
RemoteEntries ==
    { [name |-> <<"A">>, zip |-> Zip(<<ZipFile(<<f_txt>>, TRUE, <<"X">>, "none")>>)],
      [name |-> <<"a">>, zip |-> Zip(<<ZipDir(<<dir_d>>),
                                       ZipFile(<<dir_d, g_txt>>, TRUE, <<"Y", "Z">>, "none")>>)],
      [name |-> <<"a">>, zip |-> Zip(<<ZipFile(<<dir_d>>, TRUE, <<"X">>, "none"),
                                       ZipFile(<<dir_d, g_txt>>, TRUE, <<"Y">>, "none"),
                                       ZipFile(<<f_txt>>, TRUE, <<"Z">>, "none")>>)],
      [name |-> <<"b">>, zip |-> Zip(<<ZipFile(<<dir_d>>, TRUE, <<"X">>, "none"),
                                       ZipDir(<<dir_d>>),
                                       ZipFile(<<g_txt>>, TRUE, <<"Y">>, "none")>>)],
      [name |-> <<"b">>, zip |-> NotZip] }

\* the working directory a run may start in: empty; after an earlier run;
\* with a file where an entry's directory would go; with a file where the
\* base directory would go
InitialTrees ==
    { EmptyFS,
      Put(Put(MkdirAll(EmptyFS, <<AllChaosData, <<"a">> >>).fs,
              <<AllChaosData, <<"a">>, f_txt>>, FileNode(<<"X">>, TRUE)),
          <<everything_txt>>, FileNode(<<"O">>, TRUE)),
      Put(MkdirAll(EmptyFS, baseDir).fs, <<AllChaosData, <<"b">> >>, FileNode(<<"Z">>, TRUE)),
      Put(EmptyFS, baseDir, FileNode(<<"Z">>, TRUE)) }

RECURSIVE SeqsUpTo(_, _)
SeqsUpTo(S, n) ==
    IF n = 0 THEN {<<>>}
    ELSE LET shorter == SeqsUpTo(S, n - 1) IN
         shorter \cup {Append(s, x) : s \in {t \in shorter : Len(t) = n - 1}, x \in S}

Init ==
    /\ pc = "start"
    /\ \E cl \in CommandLines :
          /\ help = cl.help /\ all = cl.all /\ companies = cl.companies
          /\ inputFile = cl.inputFile /\ listFile = cl.listFile
    /\ root = FALSE
    /\ index \in SeqsUpTo(RemoteEntries, MaxIndex)
    /\ fs \in InitialTrees
    /\ fs0 = fs
    /\ tmp = {}
    /\ companySet = NilSet /\ entries = <<>> /\ idx = 0 /\ processedCount = 0
    /\ stdout = <<>> /\ stderr = <<>> /\ call = <<>>

\* main, lines 60-63: the usage text and nothing else
MainUsage ==
    /\ pc = "start"
    /\ needUsage(help, inputFile, companies, all)
    /\ stderr' = Append(stderr, Msg("usage", <<>>))
    /\ pc' = "exit"
    /\ UNCHANGED <<help, all, companies, inputFile, listFile, root, index, fs, fs0,
                   tmp, companySet, entries, idx, processedCount, stdout, call>>

\* main, lines 65-84: the base directory, then the selection
MainSetup ==
    /\ pc = "start"
    /\ ~needUsage(help, inputFile, companies, all)
    /\ LET base == MkdirAll(fs, baseDir)
           sel == selectCompanies(companies, inputFile, listFile) IN
       IF ~base.ok
       THEN /\ pc' = "fatal"
            /\ stderr' = Append(stderr, Msg("Failed to create base directory", <<>>))
            /\ UNCHANGED <<fs, companySet, stdout>>
       ELSE IF sel.err
       THEN /\ pc' = "fatal"
            /\ fs' = base.fs
            /\ stderr' = Append(stderr, Msg("Failed to read input file", <<>>))
            /\ UNCHANGED <<companySet, stdout>>
       ELSE /\ pc' = "fetch"
            /\ fs' = base.fs
            /\ companySet' = sel.set
            /\ stdout' = IF sel.msg = "none" THEN stdout ELSE Append(stdout, Msg(sel.msg, <<>>))
            /\ UNCHANGED stderr
    /\ UNCHANGED <<help, all, companies, inputFile, listFile, root, index, fs0,
                   tmp, entries, idx, processedCount, call>>

\* processURLs, lines 137-151: the index fetched and decoded, or the run ends
FetchIndex ==
    /\ pc = "fetch"
    /\ \E net \in {"ok", "get", "decode"} :
          IF net = "ok"
          THEN /\ entries' = index
               /\ idx' = 1
               /\ processedCount' = 0
               /\ pc' = "loop"
               /\ UNCHANGED stderr
          ELSE /\ pc' = "fatal"
               /\ stderr' = Append(stderr, Msg("Failed to process URLs", <<>>))
               /\ UNCHANGED <<entries, idx, processedCount>>
    /\ UNCHANGED <<help, all, companies, inputFile, listFile, root, index, fs, fs0,
                   tmp, companySet, stdout, call>>

\* processURLs, lines 153-157: an entry the filter leaves out
LoopSkip ==
    /\ pc = "loop"
    /\ idx <= Len(entries)
    /\ ~isSelected(companySet, entries[idx].name)
    /\ idx' = idx + 1
    /\ UNCHANGED <<pc, help, all, companies, inputFile, listFile, root, index, fs, fs0,
                   tmp, companySet, entries, processedCount, stdout, stderr, call>>

\* processURLs, lines 158-163: an entry processed
LoopProcess ==
    /\ pc = "loop"
    /\ idx <= Len(entries)
    /\ isSelected(companySet, entries[idx].name)
    /\ \E env \in {"ok", "get", "createtemp", "copy"} :
          LET e == entries[idx]
              r == downloadAndUnzip(fs, tmp, root, e.zip, e.name, baseDir, env) IN
          /\ fs' = r.fs
          /\ tmp' = r.tmp
          /\ stdout' = Append(stdout, Msg("processing", e.name))
          /\ stderr' = IF r.err = "none" THEN stderr
                       ELSE Append(stderr, Msg("Failed to process", e.name))
          /\ processedCount' = countAfter(processedCount, r.err)
          /\ idx' = nextEntry(idx, Len(entries), r.err)
          /\ call' = Append(call, [fn |-> "downloadAndUnzip", idx |-> idx, name |-> e.name,
                                   err |-> r.err, made |-> r.made])
    /\ UNCHANGED <<pc, help, all, companies, inputFile, listFile, root, index, fs0,
                   companySet, entries>>

\* processURLs, lines 166-167: the count reported
LoopEnd ==
    /\ pc = "loop"
    /\ idx > Len(entries)
    /\ stdout' = Append(stdout, Msg("completed", processedCount))
    /\ pc' = "concat"
    /\ UNCHANGED <<help, all, companies, inputFile, listFile, root, index, fs, fs0,
                   tmp, companySet, entries, idx, processedCount, stderr, call>>

\* main, lines 91-93: concatenateAllTxtFiles under one of the environments envs
Concatenate(envs) ==
    /\ pc = "concat"
    /\ \E env \in envs :
          LET r == concatenateAllTxtFiles(fs, root, baseDir, <<>>, env) IN
          /\ fs' = r.fs
          /\ call' = Append(call, [fn |-> "concatenateAllTxtFiles", env |-> env, err |-> r.err])
          /\ pc' = IF r.err THEN "fatal" ELSE "done"
          /\ stdout' = IF r.err THEN stdout ELSE Append(stdout, Msg("created", <<>>))
          /\ stderr' = IF r.err THEN Append(stderr, Msg("Failed to concatenate all txt files", <<>>))
                       ELSE stderr \o r.logs
    /\ UNCHANGED <<help, all, companies, inputFile, listFile, root, index, fs0,
                   tmp, companySet, entries, idx, processedCount>>

MainConcatenate == Concatenate(ConcatEnvsOneFault(fs, baseDir))

Next ==
    \/ MainUsage
    \/ MainSetup
    \/ FetchIndex
    \/ LoopSkip
    \/ LoopProcess
    \/ LoopEnd
    \/ MainConcatenate

Spec == Init /\ [][Next]_vars

(***************************************************************************)
(* Properties of the run                                                   *)
(***************************************************************************)
\* the calls of downloadAndUnzip so far, in order
Attempts == SelectSeq(call, LAMBDA c : c.fn = "downloadAndUnzip")

\* the loop of processURLs has run to its end
LoopDone == \E k \in 1..Len(stdout) : stdout[k].msg = "completed"

\* the count printed after the loop
ReportedCount == stdout[CHOOSE k \in 1..Len(stdout) : stdout[k].msg = "completed"].arg

\* the entries the selection names
Matched ==
    {i \in 1..Len(entries) : companySet.nil \/ ToLower(entries[i].name) \in companySet.names}

\* the directories right under the base directory that this run created
CreatedDirs ==
    {p \in DOMAIN fs : Len(p) = 2 /\ Parent(p) = baseDir /\ fs[p].kind = "dir" /\ p \notin DOMAIN fs0}

EntryDir(name) == <<AllChaosData, name>>

\* C1: a failed entry never stops the loop: every selected entry is attempted,
\* in index order, and the count reported after the loop is the number of
\* selected entries whose downloadAndUnzip returned no error.
C1_FailureIsolation ==
    LoopDone =>
        /\ Len(Attempts) = Cardinality(Matched)
        /\ \A k \in 1..Len(Attempts) : Attempts[k].idx \in Matched
        /\ \A j, k \in 1..Len(Attempts) : j < k => Attempts[j].idx < Attempts[k].idx
        /\ ReportedCount = Cardinality({k \in 1..Len(Attempts) : Attempts[k].err = "none"})
        /\ Cardinality({n \in 1..Len(stderr) : stderr[n].msg = "Failed to process"})
              = Cardinality({k \in 1..Len(Attempts) : Attempts[k].err # "none"})

\* a failed entry, then a later one that succeeded, with the count reported
C1_Witness ==
    /\ LoopDone
    /\ \E j, k \in 1..Len(Attempts) :
          j < k /\ Attempts[j].err # "none" /\ Attempts[k].err = "none"
    /\ ReportedCount < Len(Attempts)

\* C2: with a selection set, downloadAndUnzip is called for an entry if and
\* only if its lowercased name is in the set; without one (the -a path, the
\* nil set) it is called for every entry.
C2_SelectionDecides ==
    pc \in {"loop", "concat", "done"} =>
        /\ companySet.nil <=> (companies = <<>> /\ inputFile = <<>>)
        /\ \A i \in 1..Len(entries) :
              i < idx =>
                 ((\E k \in 1..Len(Attempts) : Attempts[k].idx = i)
                    <=> (companySet.nil \/ ToLower(entries[i].name) \in companySet.names))

\* the set {a} took the entry named A and left out the entry named b
C2_Witness ==
    /\ pc = "done"
    /\ ~companySet.nil
    /\ \E i, j \in 1..Len(entries) :
          /\ entries[i].name = <<"A">> /\ entries[j].name = <<"b">>
          /\ \E k \in 1..Len(Attempts) : Attempts[k].idx = i
          /\ \A k \in 1..Len(Attempts) : Attempts[k].idx # j

NoFailure == \A k \in 1..Len(Attempts) : Attempts[k].err = "none"

\* C3 (as claimed): with M of the N entries matched and no failure, the run
\* creates exactly M directories under the base directory and reports M.
C3_OneDirectoryPerMatch ==
    (LoopDone /\ NoFailure) =>
        /\ Cardinality(CreatedDirs) = Cardinality(Matched)
        /\ ReportedCount = Cardinality(Matched)

\* C3 (amended): with M of the N entries matched and no failure, the run
\* leaves a directory <base>/<name> for every matched entry, creates exactly
\* those of them that did not exist before (one per distinct matched name),
\* and reports M.
C3_DirectoryPerMatchedName ==
    (LoopDone /\ NoFailure) =>
        /\ \A i \in Matched : IsDirAt(fs, EntryDir(entries[i].name))
        /\ CreatedDirs = {EntryDir(entries[i].name) : i \in Matched} \ DOMAIN fs0
        /\ ReportedCount = Cardinality(Matched)

\* a selection set matched both entries, named A and a, with nothing there
\* before: two directories and a count of two
C3_Witness ==
    /\ LoopDone /\ NoFailure
    /\ ~companySet.nil
    /\ Cardinality(Matched) = 2
    /\ CreatedDirs = {EntryDir(<<"A">>), EntryDir(<<"a">>)}
    /\ ReportedCount = 2

\* C4 (as claimed): after the loop, a subdirectory created by this run exists
\* only for entries that were processed successfully; a failed entry leaves
\* no subdirectory created for it.
C4_DirectoryOnlyOnSuccess ==
    LoopDone =>
        \A k \in 1..Len(Attempts) :
            Attempts[k].err # "none" =>
                \/ EntryDir(Attempts[k].name) \notin CreatedDirs
                \/ \E j \in 1..Len(Attempts) :
                      Attempts[j].name = Attempts[k].name /\ Attempts[j].err = "none"

\* C4 (amended): after the loop, every successfully processed entry has its
\* subdirectory, and a subdirectory created by this run exists only for
\* entries whose processing got as far as creating it: those that succeeded
\* and those whose extraction failed afterwards.  An entry that fails before
\* (download, temporary file, directory creation) creates none.
C4_DirectoryOnceCreated ==
    LoopDone =>
        /\ \A k \in 1..Len(Attempts) :
              Attempts[k].err = "none" => IsDirAt(fs, EntryDir(Attempts[k].name))
        /\ \A p \in CreatedDirs :
              \E k \in 1..Len(Attempts) :
                 EntryDir(Attempts[k].name) = p /\ Attempts[k].err \in {"none", "unzip"}

\* one entry failed in extraction and left its directory, another failed in
\* the download and left none
C4_Witness ==
    /\ LoopDone
    /\ \E j, k \in 1..Len(Attempts) :
          /\ Attempts[j].err = "unzip" /\ EntryDir(Attempts[j].name) \in CreatedDirs
          /\ Attempts[k].err = "get" /\ ~Exists(fs, EntryDir(Attempts[k].name))

NoSelection == inputFile = <<>> /\ companies = <<>> /\ ~all

\* C8: with no name list, no name-list file and no -a, the run shows help
\* and does nothing else: no base directory, no index, no entry processed, no
\* everything.txt created or truncated.
C8_NoSelectionNoAction ==
    NoSelection =>
        /\ pc \in {"start", "exit"}
        /\ fs = fs0
        /\ entries = <<>> /\ call = <<>> /\ stdout = <<>> /\ tmp = {}
        /\ stderr = IF pc = "exit" THEN <<Msg("usage", <<>>)>> ELSE <<>>

\* help shown over a working directory that holds an earlier everything.txt
C8_Witness ==
    /\ NoSelection /\ ~help
    /\ pc = "exit"
    /\ IsFileAt(fs, <<everything_txt>>)
    /\ fs[<<everything_txt>>].content = <<"O">>

\* C9: no temporary archive file outlives the downloadAndUnzip that made it.
C9_NoTemporaryFileLeft == tmp = {}

\* entries were processed whose body could not be written, whose extraction
\* failed and whose extraction succeeded
C9_Witness ==
    /\ tmp = {}
    /\ \E i, j \in 1..Len(Attempts) :
          /\ Attempts[i].err \in {"copy", "mkdir"}
          /\ Attempts[j].err = "unzip"

\* C10 (as claimed): the first archive entry, directory or file, that cannot
\* be created or written ends the extraction with an error, and the index
\* entry is logged as failed and not counted.
C10_FirstFailureAborts ==
    \A k \in 1..Len(Attempts) :
        \A n \in 1..Len(Attempts[k].made) :
            ~Attempts[k].made[n] =>
                /\ n = Len(Attempts[k].made)
                /\ Attempts[k].err = "unzip"

(***************************************************************************)
(* The selector alone: each function applied to every short string         *)
(***************************************************************************)
SelAlphabet == {"A", "a", " ", ",", "\n", "\r"}

RECURSIVE StringsUpTo(_, _)
StringsUpTo(alphabet, n) ==
    IF n = 0 THEN {<<>>}
    ELSE LET shorter == StringsUpTo(alphabet, n - 1) IN
         shorter \cup {Append(s, c) : s \in {t \in shorter : Len(t) = n - 1}, c \in alphabet}


InitSelector ==
    /\ pc = "call"
    /\ companies \in StringsUpTo(SelAlphabet, MaxLen)
    /\ listFile \in {TextFile(companies), BrokenFile(companies)}
    /\ help = FALSE /\ all = FALSE /\ inputFile = <<>>
    /\ root = FALSE /\ index = <<>> /\ fs = EmptyFS /\ fs0 = EmptyFS /\ tmp = {}
    /\ companySet = NilSet /\ entries = <<>> /\ idx = 0 /\ processedCount = 0
    /\ stdout = <<>> /\ stderr = <<>> /\ call = <<>>

CallParseCompanyNames ==
    /\ pc = "call"
    /\ companySet' = MakeSet(parseCompanyNames(companies))
    /\ pc' = "parsed"
    /\ UNCHANGED <<help, all, companies, inputFile, listFile, root, index, fs, fs0,
                   tmp, entries, idx, processedCount, stdout, stderr, call>>

CallReadCompanyList ==
    /\ pc = "call"
    /\ LET r == readCompanyList(listFile) IN
       /\ companySet' = MakeSet(r.set)
       /\ call' = Append(call, [fn |-> "readCompanyList", err |-> r.err])
    /\ pc' = "read"
    /\ UNCHANGED <<help, all, companies, inputFile, listFile, root, index, fs, fs0,
                   tmp, entries, idx, processedCount, stdout, stderr>>

NextSelector == CallParseCompanyNames \/ CallReadCompanyList

SpecSelector == InitSelector /\ [][NextSelector]_vars

\* the trimmed, lowercased, non-empty tokens of s between separators sep,
\* read off the positions of s
TokensOf(s, sep) ==
    { ToLower(SubSeq(s, p, q)) :
        <<p, q>> \in { pq \in (1..Len(s)) \X (1..Len(s)) :
            /\ pq[1] <= pq[2]
            /\ ~IsSpace(s[pq[1]]) /\ ~IsSpace(s[pq[2]])
            /\ \A k \in pq[1]..pq[2] : s[k] # sep
            /\ \A k \in 1..(pq[1] - 1) :
                  (\A m \in k..pq[1] : s[m] # sep) => IsSpace(s[k])
            /\ \A k \in (pq[2] + 1)..Len(s) :
                  (\A m \in pq[2]..k : s[m] # sep) => IsSpace(s[k]) } }

\* C7: parseCompanyNames returns exactly the trimmed, lowercased, de-duplicated,
\* non-empty comma-separated tokens of its input, and readCompanyList returns
\* the same over the lines of the file (over the lines scanned, with an error,
\* when the scan fails).
C7_SelectorTokens ==
    /\ pc = "parsed" => companySet = MakeSet(TokensOf(companies, ","))
    /\ pc = "read" =>
          /\ companySet = MakeSet(TokensOf(listFile.content, "\n"))
          /\ call[Len(call)].err = listFile.scanErr

\* "A, a,, A a" in miniature: a padded token, an empty token and a duplicate
C7_Witness ==
    /\ pc = "parsed"
    /\ companies = <<" ", "A", ",", "a">>
    /\ companySet = MakeSet({<<"a">>})

(***************************************************************************)
(* The extractor alone: unzipFile called repeatedly with one archive and   *)
(* one destination directory                                               *)
(***************************************************************************)
MaxZip == 3
MaxRuns == 2

DestDir == Join(baseDir, <<(<<"a">>)>>)

ExtractEntries ==
    { ZipFile(<<f_txt>>, TRUE, <<"X">>, "none"),
      ZipFile(<<f_txt>>, FALSE, <<"Y", "Z">>, "none"),
      ZipDir(<<(<<"d">>)>>),
      ZipFile(<<(<<"d">>)>>, TRUE, <<"X">>, "none"),
      ZipFile(<<(<<"d">>), g_txt>>, TRUE, <<"Y", "Z">>, "none"),
      ZipFile(<<g_txt>>, TRUE, <<"X">>, "method"),
      ZipFile(<<g_txt>>, TRUE, <<"X">>, "crc") }

InitExtract ==
    /\ pc = "extract"
    /\ root \in BOOLEAN
    /\ \E files \in SeqsUpTo(ExtractEntries, MaxZip) : index = <<[name |-> <<"a">>, zip |-> Zip(files)]>>
    /\ fs = MkdirAll(EmptyFS, DestDir).fs
    /\ fs0 = fs
    /\ help = FALSE /\ all = FALSE /\ companies = <<>> /\ inputFile = <<>>
    /\ listFile = NoFile /\ tmp = {}
    /\ companySet = NilSet /\ entries = <<>> /\ idx = 0 /\ processedCount = 0
    /\ stdout = <<>> /\ stderr = <<>> /\ call = <<>>

CallUnzipFile ==
    /\ pc = "extract"
    /\ Len(call) < MaxRuns
    /\ LET r == unzipFile(fs, root, index[1].zip, DestDir) IN
       /\ fs' = r.fs
       /\ call' = Append(call, [fn |-> "unzipFile", err |-> r.err, made |-> r.made, fs |-> r.fs])
    /\ UNCHANGED <<pc, help, all, companies, inputFile, listFile, root, index, fs0,
                   tmp, companySet, entries, idx, processedCount, stdout, stderr>>

NextExtract == CallUnzipFile

SpecExtract == InitExtract /\ [][NextExtract]_vars

\* C6 (as claimed): a second unzipFile of the same archive into the destination
\* the first one populated returns no error and leaves the tree as the first
\* run left it.
C6_ExtractIdempotent ==
    (Len(call) >= 2 /\ ~call[1].err) => (~call[2].err /\ call[2].fs = call[1].fs)

(***************************************************************************)
(* The concatenator alone: concatenateAllTxtFiles over small output trees  *)
(***************************************************************************)
one_txt == <<"1", ".", "t", "x", "t">>
two_txt == <<"2", ".", "t", "x", "t">>
zero_txt == <<"0", ".", "t", "x", "t">>
a_txt == <<"a", ".", "t", "x", "t">>
n_md == <<"n", ".", "m", "d">>
dir_a == <<"a">>
dir_b == <<"b">>

\* what an output tree may hold: [path, node]
TreeItems ==
    { [path |-> <<AllChaosData, dir_a, one_txt>>, node |-> FileNode(<<"X">>, TRUE)],
      [path |-> <<AllChaosData, dir_b, two_txt>>, node |-> FileNode(<<"Y">>, TRUE)],
      [path |-> <<AllChaosData, dir_a, n_md>>, node |-> FileNode(<<"Z">>, TRUE)],
      [path |-> <<AllChaosData, a_txt>>, node |-> FileNode(<<"Z", "Z">>, TRUE)],
      [path |-> <<AllChaosData, dir_b, zero_txt>>, node |-> DirNode],
      [path |-> <<everything_txt>>, node |-> FileNode(<<"O">>, TRUE)],
      [path |-> <<everything_txt>>, node |-> FileNode(<<"O">>, FALSE)] }

\* the tree holding the items: each with its parent directories
RECURSIVE TreeOf(_)
TreeOf(items) ==
    IF items = {} THEN EmptyFS
    ELSE LET it == CHOOSE x \in items : TRUE
             rest == MkdirAll(TreeOf(items \ {it}), Parent(it.path)).fs IN
         Put(rest, it.path, it.node)

InitConcat ==
    /\ pc = "concat"
    /\ root = FALSE
    /\ \E items \in SUBSET TreeItems :
          /\ \A x, y \in items : x.path = y.path => x = y
          /\ fs = TreeOf(items)
    /\ fs0 = fs
    /\ help = FALSE /\ all = FALSE /\ companies = <<>> /\ inputFile = <<>>
    /\ listFile = NoFile /\ index = <<>> /\ tmp = {}
    /\ companySet = NilSet /\ entries = <<>> /\ idx = 0 /\ processedCount = 0
    /\ stdout = <<>> /\ stderr = <<>> /\ call = <<>>

CallConcatenate == Concatenate(ConcatEnvs(fs, baseDir))

NextConcat == CallConcatenate

SpecConcat == InitConcat /\ [][NextConcat]_vars

\* the order of a traversal: name by name, in byte order
RECURSIVE PathLess(_, _)
PathLess(p, q) ==
    IF q = <<>> THEN FALSE
    ELSE IF p = <<>> THEN TRUE
    ELSE IF Head(p) # Head(q) THEN StrLess(Head(p), Head(q))
    ELSE PathLess(Tail(p), Tail(q))

RECURSIVE InTraversalOrder(_)
InTraversalOrder(S) ==
    IF S = {} THEN <<>>
    ELSE LET first == CHOOSE p \in S : \A q \in S \ {p} : PathLess(p, q) IN
         <<first>> \o InTraversalOrder(S \ {first})

RECURSIVE Flatten(_)
Flatten(parts) == IF parts = <<>> THEN <<>> ELSE Head(parts) \o Flatten(Tail(parts))

ConcatEnv == call[Len(call)].env
CombinedFile == fs[<<everything_txt>>].content

\* the .txt files of the tree the run started from that were opened and copied
CopiedFiles ==
    {p \in TxtFilesUnder(fs0, baseDir) :
        outcomeFor(ConcatEnv.outcome, p).kind \notin {"open", "copy"}}

\* C5 (as claimed): after the Concatenator completes, everything.txt consists
\* exactly of each .txt file's full content followed by one newline, in
\* traversal order, the files that could not be opened or copied left out.
C5_ExactConcatenation ==
    pc = "done" =>
        /\ IsFileAt(fs, <<everything_txt>>)
        /\ LET order == InTraversalOrder(CopiedFiles) IN
           CombinedFile = Flatten([k \in 1..Len(order) |-> fs0[order[k]].content \o <<"\n">>])

\* what a file the traversal reached contributes
Contribution(p) ==
    LET o == outcomeFor(ConcatEnv.outcome, p) IN
    IF o.kind = "ok" THEN fs0[p].content \o <<"\n">>
    ELSE IF o.kind = "newline" THEN fs0[p].content
    ELSE IF o.kind = "copy" THEN SubSeq(fs0[p].content, 1, o.n)
    ELSE <<>>

\* the files a traversal finds: those before the directory it could not read
ReachedFiles ==
    {p \in TxtFilesUnder(fs0, baseDir) : \A d \in ConcatEnv.unreadable : PathLess(p, d)}

\* C5 (amended): after the Concatenator completes, everything.txt has been
\* created or truncated and consists of, for each .txt file the traversal
\* found (all of them unless a directory could not be read, where the traversal
\* stops), in traversal order: the full content and one newline; nothing when
\* the file could not be opened; the bytes copied before the failure, without
\* newline, when the copy failed; the content without newline when the newline
\* could not be written.  The files after a failed one are still appended.
C5_ConcatenationWithFaults ==
    pc = "done" =>
        /\ IsFileAt(fs, <<everything_txt>>)
        /\ \A p \in DOMAIN fs0 \ {<<everything_txt>>} : Exists(fs, p) /\ fs[p] = fs0[p]
        /\ LET order == InTraversalOrder(ReachedFiles) IN
           CombinedFile = Flatten([k \in 1..Len(order) |-> Contribution(order[k])])

\* a/1.txt = "X" and b/2.txt = "Y" give "X\nY\n" over an old everything.txt;
\* and a file that could not be opened followed by one that was appended
C5_Witness ==
    /\ pc = "done"
    /\ TxtFilesUnder(fs0, baseDir) = {<<AllChaosData, dir_a, one_txt>>, <<AllChaosData, dir_b, two_txt>>}
    /\ IsFileAt(fs0, <<everything_txt>>)
    /\ ConcatEnv.unreadable = {}
    /\ \A p \in TxtFilesUnder(fs0, baseDir) : ConcatEnv.outcome[p].kind = "ok"
    /\ CombinedFile = <<"X", "\n", "Y", "\n">>

====
